---- MODULE Spec2Model ----
(***************************************************************************)
(* Model of csv_to_json.py: main() reads a table of fuel price rows,       *)
(* aggregates it per station and product (process_stations), fills in      *)
(* missing coordinates through concurrent geocoding lookups gated by a     *)
(* semaphore (validate_and_geocode_stations), flattens the mapping         *)
(* (format_output) and writes one JSON file.                               *)
(*                                                                         *)
(* Values.  A table cell or Python value that can be missing is a tagged   *)
(* tuple: NaN (pandas missing cell), None, NaT (missing value of a         *)
(* datetime64 column), Num(x) (a number), Str(s) (text).  A date string    *)
(* "DD/MM/YYYY HH:MM" is <<DD, MM, YYYY, HH, MM>>, a datetime is           *)
(* <<"dt", Y, M, D, h, m>> and the text "YYYY-MM-DDTHH:MM:SSZ" is          *)
(* <<"iso", Y, M, D, h, m, s>>.  An ordered dict is the sequence of its    *)
(* values in insertion order.                                              *)
(***************************************************************************)
EXTENDS Integers, Sequences, FiniteSets, TLC

VARIABLES
    pc,                  \* position of main()
    df,                  \* the DataFrame read from the CSV file
    df_sorted,           \* df after line 77 (with column fecha_vigencia_dt)
    stations,            \* dict stations, in insertion order
    GEOCODING_ENABLED,   \* module global, line 15
    concurrent_requests, \* parameter of validate_and_geocode_stations
    before,              \* stations as they were when resolution started
    stations_to_geocode, \* list built at lines 166-175 (station ids)
    semaphore,           \* value of the asyncio.Semaphore
    task,                \* position of each geocode_and_update task
    result,              \* what geocode_address_async returned to a task
    lookups,             \* number of lookups started per station
    output_data,         \* list returned by format_output
    file                 \* content of stations_prices.json

vars == <<pc, df, df_sorted, stations, GEOCODING_ENABLED, concurrent_requests,
          before, stations_to_geocode, semaphore, task, result, lookups,
          output_data, file>>

----------------------------------------------------------------------------
(* Bounds of the model *)

MaxRows == 3
MaxStations == 3
MaxConcurrent == 2

(* Program constant: concurrent_requests=5 *)
DefaultConcurrentRequests == 5

----------------------------------------------------------------------------
(* Values *)

NaN == <<"NaN">>
None == <<"None">>
NaT == <<"NaT">>
Num(x) == <<"num", x>>
Str(s) == <<"str", s>>

NoFile == <<"absent">>
NotFormatted == <<"unset">>

\* pd.notna(v)
notna(v) == v /= NaN /\ v /= None /\ v /= NaT

\* float(v) raises ValueError on text that is not a number
FloatRaises(v) == notna(v) /\ v[1] = "str"

\* float(v) if pd.notna(v) else None
FloatOrNone(v) == IF notna(v) THEN v ELSE None

\* truth value of a Python object: None and 0 are false
Truthy(v) == v /= None /\ v /= Num(0)

----------------------------------------------------------------------------
(* Dates *)

DaysInMonth(m, y) ==
    IF m \in {4, 6, 9, 11} THEN 30
    ELSE IF m = 2 THEN (IF y % 4 = 0 /\ (y % 100 /= 0 \/ y % 400 = 0) THEN 29 ELSE 28)
    ELSE 31

\* datetime.strptime(date_str, "%d/%m/%Y %H:%M"); any exception gives None
parse_date(date_str) ==
    LET dd == date_str[1]
        mm == date_str[2]
        yy == date_str[3]
        hh == date_str[4]
        mi == date_str[5]
    IN IF /\ mm \in 1..12
          /\ yy \in 1..9999
          /\ dd \in 1..DaysInMonth(mm, yy)
          /\ hh \in 0..23
          /\ mi \in 0..59
       THEN <<"dt", yy, mm, dd, hh, mi>>
       ELSE None

\* bool(dt) of format_date: None is false, NaT and every datetime are true
DateTruthy(dt) == dt /= None

\* dt.strftime raises ValueError on NaT
FormatDateRaises(dt) == DateTruthy(dt) /\ dt = NaT

\* dt.strftime("%Y-%m-%dT%H:%M:%SZ") if dt else None
format_date(dt) ==
    IF DateTruthy(dt) THEN <<"iso", dt[2], dt[3], dt[4], dt[5], dt[6], 0>> ELSE None

\* a <= b for tuples of integers compared field by field from position k
RECURSIVE LexLE(_, _, _)
LexLE(a, b, k) ==
    IF k > Len(a) THEN TRUE
    ELSE IF a[k] < b[k] THEN TRUE
    ELSE IF a[k] > b[k] THEN FALSE
    ELSE LexLE(a, b, k + 1)

\* datetime comparison a >= b
DtGE(a, b) == LexLE(b, a, 2)

----------------------------------------------------------------------------
(* Input rows.  idempresa, idproducto, idempresabandera and idtipohorario  *)
(* are integers in every row of the model; producto, latitud, longitud     *)
(* and precio can be missing (NaN); latitud and precio can be text that    *)
(* is not a number; fecha_vigencia can be a date that does not exist.      *)

Row(id, info, lat, lng, pid, pname, precio, fecha, th) ==
    [idempresa |-> id,
     empresa |-> info.empresa,
     direccion |-> info.direccion,
     localidad |-> info.localidad,
     provincia |-> info.provincia,
     empresabandera |-> info.empresabandera,
     idempresabandera |-> info.idempresabandera,
     latitud |-> lat,
     longitud |-> lng,
     idproducto |-> pid,
     producto |-> pname,
     precio |-> precio,
     fecha_vigencia |-> fecha,
     tipohorario |-> th.tipohorario,
     idtipohorario |-> th.idtipohorario]

InfoA == [empresa |-> "ACA", direccion |-> "Av. Mitre 100", localidad |-> "Quilmes",
          provincia |-> "Buenos Aires", empresabandera |-> "YPF", idempresabandera |-> 2]
InfoB == [empresa |-> "Petro Sur", direccion |-> "Ruta 3 km 40", localidad |-> "Trelew",
          provincia |-> "Chubut", empresabandera |-> "Shell", idempresabandera |-> 4]

Diurno == [tipohorario |-> "Diurno", idtipohorario |-> 2]
Nocturno == [tipohorario |-> "Nocturno", idtipohorario |-> 3]

BadDate == <<31, 2, 2023, 10, 0>>    \* "31/02/2023 10:00"
Date1 == <<1, 6, 2023, 10, 0>>       \* "01/06/2023 10:00"
Date2 == <<2, 6, 2023, 9, 0>>        \* "02/06/2023 09:00"
Dates == {BadDate, Date1, Date2}

RowA(id, fecha) == Row(id, InfoA, Num(-34), Num(-58), 1, Str("A"), Num(10), fecha, Diurno)
RowB(id, fecha) == Row(id, InfoB, NaN, Num(-64), 2, Str("B"), NaN, fecha, Nocturno)
\* a row whose product name is missing
RowNoName(id, fecha) == Row(id, InfoB, Num(-34), Num(-58), 1, NaN, Num(10), fecha, Diurno)
\* a row whose price is the text "abc"
RowBadPrice(id, fecha) == Row(id, InfoA, Num(-34), Num(-58), 1, Str("A"), Str("abc"), fecha, Diurno)
\* a row whose latitude is the text "abc"
RowBadLat(id, fecha) == Row(id, InfoB, Str("abc"), Num(-64), 2, Str("B"), Num(10), fecha, Nocturno)

AggRows ==
    {RowA(id, f) : id \in 1..2, f \in Dates}
    \cup {RowB(id, f) : id \in 1..2, f \in Dates}
    \cup {RowNoName(1, f) : f \in {BadDate, Date2}}
    \cup {RowBadPrice(1, Date1), RowBadLat(2, Date1)}

\* the tables of the aggregation runs: 1..MaxRows rows
AggTables == UNION {[1..n -> AggRows] : n \in 1..MaxRows}

\* the tables of the resolution runs: one row per station 1..n, station id
\* dated day id of June 2023, with the coordinates valid, missing or zero
GeoCoords == {<<Num(-34), Num(-58)>>, <<NaN, NaN>>, <<Num(0), Num(-58)>>}
GeoRow(id, c) == Row(id, IF id % 2 = 1 THEN InfoA ELSE InfoB, c[1], c[2], 1, Str("A"),
                     Num(10), <<id, 6, 2023, 10, 0>>, Diurno)
GeoTables == UNION {{[i \in 1..n |-> GeoRow(i, cs[i])] : cs \in [1..n -> GeoCoords]}
                    : n \in 1..MaxStations}

----------------------------------------------------------------------------
(* process_stations *)

AddColumn(r, dt) ==
    [idempresa |-> r.idempresa, empresa |-> r.empresa, direccion |-> r.direccion,
     localidad |-> r.localidad, provincia |-> r.provincia,
     empresabandera |-> r.empresabandera, idempresabandera |-> r.idempresabandera,
     latitud |-> r.latitud, longitud |-> r.longitud, idproducto |-> r.idproducto,
     producto |-> r.producto, precio |-> r.precio, fecha_vigencia |-> r.fecha_vigencia,
     tipohorario |-> r.tipohorario, idtipohorario |-> r.idtipohorario,
     fecha_vigencia_dt |-> dt]

\* df["fecha_vigencia_dt"] = df["fecha_vigencia"].apply(parse_date): a column
\* holding a datetime is a datetime64 column, whose missing values are NaT;
\* a column of None only stays a column of None
ApplyParseDate(d) ==
    LET parsed == [i \in 1..Len(d) |-> parse_date(d[i].fecha_vigencia)]
        datetime64 == \E i \in 1..Len(d) : parsed[i] /= None
    IN [i \in 1..Len(d) |->
          AddColumn(d[i], IF parsed[i] = None /\ datetime64 THEN NaT ELSE parsed[i])]

\* mutant: ascending=True
InOrderAscending(a, b) == ~notna(b) \/ (notna(a) /\ DtGE(b, a))

\* sort_values(ascending=False): a may precede b; missing values go last
InOrder(a, b) == ~notna(b) \/ (notna(a) /\ DtGE(a, b))

\* the row orders sort_values may produce (quicksort: ties in any order)
SortOrders(d) ==
    {p \in Permutations(1..Len(d)) :
        \A i, j \in 1..Len(d) :
            i < j => InOrder(d[p[i]].fecha_vigencia_dt, d[p[j]].fecha_vigencia_dt)}

sort_values(d, p) == [i \in 1..Len(d) |-> d[p[i]]]

\* the elements of a set of integers in ascending order
RECURSIVE Ascending(_)
Ascending(S) ==
    IF S = {} THEN <<>>
    ELSE LET m == CHOOSE x \in S : \A y \in S : x <= y
         IN <<m>> \o Ascending(S \ {m})

\* the station ids of d in order of first occurrence
RECURSIVE FirstSeen(_)
FirstSeen(d) ==
    IF d = <<>> THEN <<>>
    ELSE LET init == FirstSeen(SubSeq(d, 1, Len(d) - 1))
             id == d[Len(d)].idempresa
         IN IF \E k \in 1..Len(init) : init[k] = id THEN init ELSE Append(init, id)

\* mutant: groupby(..., sort=False)
StationKeysUnsorted(d) == FirstSeen(d)

\* df.groupby("idempresa"): the group keys, sorted
StationKeys(d) == Ascending({d[i].idempresa : i \in 1..Len(d)})

\* the rows of one station, in the order of d
StationGroup(d, id) == SelectSeq(d, LAMBDA r : r.idempresa = id)

\* order of the text values of column producto
NameRank(n) == IF n = Str("A") THEN 1 ELSE 2

ProductKeyLE(a, b) == a[1] < b[1] \/ (a[1] = b[1] /\ NameRank(a[2]) <= NameRank(b[2]))

RECURSIVE AscendingKeys(_)
AscendingKeys(S) ==
    IF S = {} THEN <<>>
    ELSE LET m == CHOOSE x \in S : \A y \in S : ProductKeyLE(x, y)
         IN <<m>> \o AscendingKeys(S \ {m})

\* station_group.groupby(["idproducto", "producto"]) leaves out the rows
\* whose key has a missing value
InProductGroups(r) == notna(r.producto)

ProductKeys(g) ==
    AscendingKeys({<<g[i].idproducto, g[i].producto>> :
                      i \in {k \in 1..Len(g) : InProductGroups(g[k])}})

ProductGroup(g, key) ==
    SelectSeq(g, LAMBDA r : InProductGroups(r) /\ <<r.idproducto, r.producto>> = key)

price_entry(price_row) ==
    [price |-> FloatOrNone(price_row.precio),
     date |-> format_date(price_row.fecha_vigencia_dt),
     hourType |-> price_row.tipohorario,
     hourTypeId |-> price_row.idtipohorario]

ProductEntry(key, product_group) ==
    [productId |-> key[1],
     productName |-> key[2],
     prices |-> [i \in 1..Len(product_group) |-> price_entry(product_group[i])]]

\* mutant: station_group.iloc[-1]
LastRow(station_group) == station_group[Len(station_group)]

\* first_row = station_group.iloc[0]
FirstRow(station_group) == station_group[1]

StationEntry(station_id, station_group) ==
    LET first_row == FirstRow(station_group)
        keys == ProductKeys(station_group)
    IN [stationId |-> station_id,
        stationName |-> first_row.empresa,
        address |-> first_row.direccion,
        town |-> first_row.localidad,
        province |-> first_row.provincia,
        flag |-> first_row.empresabandera,
        flagId |-> first_row.idempresabandera,
        coordinates |-> [lat |-> FloatOrNone(first_row.latitud),
                         lng |-> FloatOrNone(first_row.longitud)],
        products |-> [k \in 1..Len(keys) |->
                        ProductEntry(keys[k], ProductGroup(station_group, keys[k]))]]

\* an exception leaves process_stations: float() of text that is not a number
\* (coordinates of a first row, price of a grouped row) or strftime of NaT
ProcessRaises(d) ==
    \E id \in {d[i].idempresa : i \in 1..Len(d)} :
        LET g == StationGroup(d, id)
        IN \/ FloatRaises(FirstRow(g).latitud)
           \/ FloatRaises(FirstRow(g).longitud)
           \/ \E i \in 1..Len(g) :
                 /\ InProductGroups(g[i])
                 /\ \/ FloatRaises(g[i].precio)
                    \/ FormatDateRaises(g[i].fecha_vigencia_dt)

\* the dict returned by process_stations for the sorted table d
process_stations(d) ==
    LET keys == StationKeys(d)
    IN [k \in 1..Len(keys) |-> StationEntry(keys[k], StationGroup(d, keys[k]))]

----------------------------------------------------------------------------
(* validate_and_geocode_stations *)

\* mutant: only missing coordinates are selected
NeedsResolutionNullOnly(coords) == coords.lat = None \/ coords.lng = None

\* the selection test of lines 169-174
NeedsResolution(coords) ==
    \/ coords.lat = None
    \/ coords.lng = None
    \/ coords.lat = Num(0)
    \/ coords.lng = Num(0)

\* stations_to_geocode, as station ids in the order of the dict
ToGeocode(st) ==
    LET sel == SelectSeq(st, LAMBDA s : NeedsResolution(s.coordinates))
    IN [i \in 1..Len(sel) |-> sel[i].stationId]

Ids(seq) == {seq[i] : i \in 1..Len(seq)}

StationIdsOf(st) == {st[i].stationId : i \in 1..Len(st)}

\* what geocode_address_async returns to the task of a station: (None, None)
\* on any failure, else the location of the first result
NoResult == <<"pending">>
LookupResults(id) == {<<None, None>>, <<Num(-30 - id), Num(-64)>>, <<Num(0), Num(-64)>>}

\* mutant: a free slot is not awaited
CanAcquireAlways == TRUE

\* async with semaphore: entered only while the value is positive
CanAcquire == semaphore > 0

\* mutant: if lat or lng
BothTruthyEither(r) == Truthy(r[1]) \/ Truthy(r[2])

\* if lat and lng
BothTruthy(r) == Truthy(r[1]) /\ Truthy(r[2])

SetCoordinates(st, id, r) ==
    [i \in 1..Len(st) |->
        IF st[i].stationId = id
        THEN [st[i] EXCEPT !.coordinates = [lat |-> r[1], lng |-> r[2]]]
        ELSE st[i]]

\* mutant: the loop over as_completed stops at the first completion
TasksCompletedAny == \E id \in DOMAIN task : task[id] = "done"

\* for f in as_completed(tasks): await f   has awaited every task
TasksCompleted == \A id \in DOMAIN task : task[id] = "done"

----------------------------------------------------------------------------
(* format_output *)

\* x or 0.0
OrZero(x) == IF Truthy(x) THEN x ELSE Num(0)

\* mutant: latitude first
geometryLatFirst(coords) ==
    [type |-> "Point", coordinates |-> <<OrZero(coords.lat), OrZero(coords.lng)>>]

geometry(coords) ==
    [type |-> "Point", coordinates |-> <<OrZero(coords.lng), OrZero(coords.lat)>>]

station_entry(station) ==
    [stationId |-> station.stationId,
     stationName |-> station.stationName,
     address |-> station.address,
     town |-> station.town,
     province |-> station.province,
     flag |-> station.flag,
     flagId |-> station.flagId,
     geometry |-> geometry(station.coordinates),
     products |-> station.products]

format_output(st) == [i \in 1..Len(st) |-> station_entry(st[i])]

----------------------------------------------------------------------------
(* main *)

InitOn(tables, flags, limits) ==
    /\ pc = "start"
    /\ df \in tables
    /\ GEOCODING_ENABLED \in flags
    /\ concurrent_requests \in limits
    /\ df_sorted = <<>>
    /\ stations = <<>>
    /\ before = <<>>
    /\ stations_to_geocode = <<>>
    /\ semaphore = 0
    /\ task = <<>>
    /\ result = <<>>
    /\ lookups = <<>>
    /\ output_data = NotFormatted
    /\ file = NoFile

\* process_stations(df) returns
ProcessStationsReturns ==
    /\ pc = "start"
    /\ \E p \in SortOrders(ApplyParseDate(df)) :
          LET d == sort_values(ApplyParseDate(df), p)
          IN /\ ~ProcessRaises(d)
             /\ df_sorted' = d
             /\ stations' = process_stations(d)
    /\ pc' = "processed"
    /\ UNCHANGED <<df, GEOCODING_ENABLED, concurrent_requests, before,
                   stations_to_geocode, semaphore, task, result, lookups,
                   output_data, file>>

\* process_stations(df) raises and main ends with the exception
ProcessStationsRaises ==
    /\ pc = "start"
    /\ \E p \in SortOrders(ApplyParseDate(df)) :
          LET d == sort_values(ApplyParseDate(df), p)
          IN /\ ProcessRaises(d)
             /\ df_sorted' = d
    /\ pc' = "aborted"
    /\ UNCHANGED <<df, stations, GEOCODING_ENABLED, concurrent_requests, before,
                   stations_to_geocode, semaphore, task, result, lookups,
                   output_data, file>>

\* no API key: the stations are used as they are
SkipGeocoding ==
    /\ pc = "processed"
    /\ ~GEOCODING_ENABLED
    /\ pc' = "resolved"
    /\ before' = stations
    /\ lookups' = [id \in StationIdsOf(stations) |-> 0]
    /\ UNCHANGED <<df, df_sorted, stations, GEOCODING_ENABLED, concurrent_requests,
                   stations_to_geocode, semaphore, task, result, output_data, file>>

\* every station has valid coordinates: return stations
NothingToGeocode ==
    /\ pc = "processed"
    /\ GEOCODING_ENABLED
    /\ ToGeocode(stations) = <<>>
    /\ pc' = "resolved"
    /\ before' = stations
    /\ lookups' = [id \in StationIdsOf(stations) |-> 0]
    /\ UNCHANGED <<df, df_sorted, stations, GEOCODING_ENABLED, concurrent_requests,
                   stations_to_geocode, semaphore, task, result, output_data, file>>

\* the stations to geocode are listed, the semaphore and one task per listed
\* station are created
StartGeocoding ==
    /\ pc = "processed"
    /\ GEOCODING_ENABLED
    /\ ToGeocode(stations) /= <<>>
    /\ pc' = "geocoding"
    /\ before' = stations
    /\ stations_to_geocode' = ToGeocode(stations)
    /\ semaphore' = concurrent_requests
    /\ task' = [id \in Ids(ToGeocode(stations)) |-> "waiting"]
    /\ result' = [id \in Ids(ToGeocode(stations)) |-> NoResult]
    /\ lookups' = [id \in StationIdsOf(stations) |-> 0]
    /\ UNCHANGED <<df, df_sorted, stations, GEOCODING_ENABLED, concurrent_requests,
                   output_data, file>>

\* a task enters the semaphore and starts its lookup
Acquire(id) ==
    /\ pc = "geocoding"
    /\ task[id] = "waiting"
    /\ CanAcquire
    /\ semaphore' = semaphore - 1
    /\ task' = [task EXCEPT ![id] = "lookup"]
    /\ lookups' = [lookups EXCEPT ![id] = @ + 1]
    /\ UNCHANGED <<pc, df, df_sorted, stations, GEOCODING_ENABLED, concurrent_requests,
                   before, stations_to_geocode, result, output_data, file>>

\* the lookup returns r; the coordinates are written when both are truthy;
\* the task then sleeps 0.1 s inside the semaphore
LookupReturns(id, r) ==
    /\ pc = "geocoding"
    /\ task[id] = "lookup"
    /\ result' = [result EXCEPT ![id] = r]
    /\ stations' = IF BothTruthy(r) THEN SetCoordinates(stations, id, r) ELSE stations
    /\ task' = [task EXCEPT ![id] = "sleeping"]
    /\ UNCHANGED <<pc, df, df_sorted, GEOCODING_ENABLED, concurrent_requests, before,
                   stations_to_geocode, semaphore, lookups, output_data, file>>

\* the sleep ends, the task leaves the semaphore and is done
Release(id) ==
    /\ pc = "geocoding"
    /\ task[id] = "sleeping"
    /\ semaphore' = semaphore + 1
    /\ task' = [task EXCEPT ![id] = "done"]
    /\ UNCHANGED <<pc, df, df_sorted, stations, GEOCODING_ENABLED, concurrent_requests,
                   before, stations_to_geocode, result, lookups, output_data, file>>

\* every task has been awaited: validate_and_geocode_stations returns
AllCompleted ==
    /\ pc = "geocoding"
    /\ TasksCompleted
    /\ pc' = "resolved"
    /\ UNCHANGED <<df, df_sorted, stations, GEOCODING_ENABLED, concurrent_requests,
                   before, stations_to_geocode, semaphore, task, result, lookups,
                   output_data, file>>

\* the process is interrupted while asyncio.run is running
Interrupt ==
    /\ pc = "geocoding"
    /\ pc' = "interrupted"
    /\ UNCHANGED <<df, df_sorted, stations, GEOCODING_ENABLED, concurrent_requests,
                   before, stations_to_geocode, semaphore, task, result, lookups,
                   output_data, file>>

\* output_data = format_output(stations)
FormatOutput ==
    /\ pc = "resolved"
    /\ output_data' = format_output(stations)
    /\ pc' = "formatted"
    /\ UNCHANGED <<df, df_sorted, stations, GEOCODING_ENABLED, concurrent_requests,
                   before, stations_to_geocode, semaphore, task, result, lookups, file>>

\* json.dump(output_data, f)
WriteFile ==
    /\ pc = "formatted"
    /\ file' = output_data
    /\ pc' = "written"
    /\ UNCHANGED <<df, df_sorted, stations, GEOCODING_ENABLED, concurrent_requests,
                   before, stations_to_geocode, semaphore, task, result, lookups,
                   output_data>>

(* Runs of main over the resolution tables, with and without an API key *)
Init == InitOn(GeoTables, BOOLEAN, (1..MaxConcurrent) \cup {DefaultConcurrentRequests})

Next ==
    \/ ProcessStationsReturns
    \/ SkipGeocoding
    \/ NothingToGeocode
    \/ StartGeocoding
    \/ \E id \in DOMAIN task : Acquire(id)
    \/ \E id \in DOMAIN task : \E r \in LookupResults(id) : LookupReturns(id, r)
    \/ \E id \in DOMAIN task : Release(id)
    \/ AllCompleted
    \/ Interrupt
    \/ FormatOutput
    \/ WriteFile

Spec == Init /\ [][Next]_vars

(* Runs of main over the aggregation tables, without an API key *)
InitAgg == InitOn(AggTables, {FALSE}, {DefaultConcurrentRequests})

NextAgg ==
    \/ ProcessStationsReturns
    \/ ProcessStationsRaises
    \/ SkipGeocoding
    \/ FormatOutput
    \/ WriteFile

SpecAgg == InitAgg /\ [][NextAgg]_vars

----------------------------------------------------------------------------
(* Properties of the resolution pass (checked under Spec) *)

\* a coordinate pair with both axes present and non-zero
ValidPair(coords) ==
    /\ coords.lat \notin {None, Num(0)}
    /\ coords.lng \notin {None, Num(0)}

\* the coordinates station id had when the resolution pass started
CoordsBefore(id) ==
    (CHOOSE s \in {before[i] : i \in 1..Len(before)} : s.stationId = id).coordinates

InFlight == {id \in DOMAIN task : task[id] = "lookup"}

\* the lookup of station id has returned a pair of non-null, non-zero numbers
LookupSucceeded(id) ==
    /\ id \in DOMAIN result
    /\ result[id] /= NoResult
    /\ result[id][1] \notin {None, Num(0)}
    /\ result[id][2] \notin {None, Num(0)}

\* C1: in every reachable state of a resolution pass, the number of lookups
\* started and not yet returned is at most concurrent_requests, however many
\* stations were selected.
C1_AtMostNInFlight == Cardinality(InFlight) <= concurrent_requests

\* C1 witness: more stations were selected than the limit, the limit is
\* reached and a task is waiting for a slot.
C1_Witness ==
    /\ pc = "geocoding"
    /\ Len(stations_to_geocode) > concurrent_requests
    /\ Cardinality(InFlight) = concurrent_requests
    /\ \E id \in DOMAIN task : task[id] = "waiting"

\* C2: a station's coordinate pair differs from the pair it had before the
\* pass only if the station needed resolution and its own lookup succeeded;
\* then both axes are the returned ones and the pair is valid.  In every
\* other case (valid pair, failed lookup, nothing to resolve, geocoding
\* disabled) the station is as it was.
C2_CoordinatesChangeOnlyOnSuccess ==
    /\ Len(before) \in {0, Len(stations)}
    /\ \A i \in 1..Len(before) :
          LET s == stations[i]
              b == before[i]
          IN /\ s = [b EXCEPT !.coordinates = s.coordinates]
             /\ IF GEOCODING_ENABLED /\ LookupSucceeded(s.stationId)
                THEN /\ ~ValidPair(b.coordinates)
                     /\ s.coordinates = [lat |-> result[s.stationId][1],
                                         lng |-> result[s.stationId][2]]
                     /\ ValidPair(s.coordinates)
                ELSE s.coordinates = b.coordinates

\* C2 witness: the pass is over; one station was resolved, the lookup of
\* another failed and left its zero latitude, a third was valid and untouched.
C2_Witness ==
    /\ pc = "resolved"
    /\ GEOCODING_ENABLED
    /\ \E i, j, k \in 1..Len(stations) :
          /\ LookupSucceeded(stations[i].stationId)
          /\ stations[i].coordinates /= before[i].coordinates
          /\ stations[j].stationId \in DOMAIN result
          /\ result[stations[j].stationId] = <<None, None>>
          /\ stations[j].coordinates.lat = Num(0)
          /\ stations[k].stationId \notin DOMAIN result
          /\ ValidPair(stations[k].coordinates)

\* C9: while a task of the resolution pass has not finished, nothing has
\* been formatted and no file has been written; this also holds in the
\* state an interrupted run is left in.
C9_NoOutputBeforeResolutionEnds ==
    (\E id \in DOMAIN task : task[id] /= "done") =>
        /\ output_data = NotFormatted
        /\ file = NoFile
        /\ pc \in {"geocoding", "interrupted"}

\* C9 witness: a run interrupted with one task finished (its coordinates
\* written) and another lookup in flight; there is no file.
C9_Witness ==
    /\ pc = "interrupted"
    /\ file = NoFile
    /\ \E id1, id2 \in DOMAIN task :
          /\ task[id1] = "done"
          /\ LookupSucceeded(id1)
          /\ task[id2] = "lookup"

\* C10: no station is listed twice, no station's lookup is started more than
\* once, a lookup is started only for a station that needed resolution when
\* the pass started, and when the pass has returned every such station has
\* had exactly one lookup, whatever the other lookups returned.
C10_OneLookupPerSelectedStation ==
    /\ Cardinality(Ids(stations_to_geocode)) = Len(stations_to_geocode)
    /\ \A id \in DOMAIN lookups :
          /\ lookups[id] <= 1
          /\ lookups[id] = 1 => ~ValidPair(CoordsBefore(id))
          /\ (GEOCODING_ENABLED /\ pc \in {"resolved", "formatted", "written"})
                => (lookups[id] = 1 <=> ~ValidPair(CoordsBefore(id)))
          /\ ~GEOCODING_ENABLED => lookups[id] = 0

\* C10 witness: the pass has returned; one lookup failed, another station's
\* lookup succeeded after it, a valid station had none.
C10_Witness ==
    /\ pc = "resolved"
    /\ Len(stations) = 3
    /\ \E id1, id2, id3 \in DOMAIN lookups :
          /\ id1 < id2
          /\ lookups[id1] = 1 /\ result[id1] = <<None, None>>
          /\ lookups[id2] = 1 /\ LookupSucceeded(id2)
          /\ lookups[id3] = 0

----------------------------------------------------------------------------
(* Properties of aggregation and formatting (checked under SpecAgg) *)

Processed == pc \in {"processed", "resolved", "formatted", "written"}

RECURSIVE SeqSum(_)
SeqSum(s) == IF s = <<>> THEN 0 ELSE s[1] + SeqSum(Tail(s))

\* the number of price entries of a station, of a dict of stations
PricePointsOf(station) ==
    SeqSum([k \in 1..Len(station.products) |-> Len(station.products[k].prices)])

TotalPricePoints(st) == SeqSum([i \in 1..Len(st) |-> PricePointsOf(st[i])])

\* position i of table d holds a row of station id with a parsed date that no
\* parsed date of the station's rows exceeds, or the station has no row with
\* a parsed date
MostRecentRow(d, i, id) ==
    /\ d[i].idempresa = id
    /\ \A j \in 1..Len(d) :
          (d[j].idempresa = id /\ parse_date(d[j].fecha_vigencia) /= None) =>
              /\ parse_date(d[i].fecha_vigencia) /= None
              /\ DtGE(parse_date(d[i].fecha_vigencia), parse_date(d[j].fecha_vigencia))

\* date a of a price list may stand before date b: nulls last, else a >= b
DatesInOrder(a, b) == b = None \/ (a /= None /\ LexLE(b, a, 2))

\* C3: when process_stations has returned, the number of price entries over
\* all products of all stations equals the number of input rows, and each
\* station id appears once.
C3_EveryRowOnePricePoint ==
    pc = "processed" =>
        /\ TotalPricePoints(stations) = Len(df)
        /\ Cardinality(StationIdsOf(stations)) = Len(stations)

\* C4: when process_stations has returned, every prices list is in
\* non-increasing date order, entries without a date after all others.
C4_PricesNewestFirst ==
    Processed =>
        \A i \in 1..Len(stations) :
            \A k \in 1..Len(stations[i].products) :
                LET prices == stations[i].products[k].prices
                IN \A a, b \in 1..Len(prices) :
                      a < b => DatesInOrder(prices[a].date, prices[b].date)

\* C4 witness: the two rows of the scenario, the older one first in the
\* table, give one product with two prices, the 02/06 one first.
C4_Witness ==
    /\ pc = "processed"
    /\ Len(df) = 2
    /\ df[1].fecha_vigencia = Date1
    /\ df[2].fecha_vigencia = Date2
    /\ Len(stations) = 1
    /\ Len(stations[1].products) = 1
    /\ Len(stations[1].products[1].prices) = 2
    /\ stations[1].products[1].prices[1].date = <<"iso", 2023, 6, 2, 9, 0, 0>>
    /\ stations[1].products[1].prices[2].date = <<"iso", 2023, 6, 1, 10, 0, 0>>

\* C5: a table whose only defects are record-level ones in prices and
\* coordinates (every date parses) does not make process_stations raise, and
\* every grouped row keeps its price entry.
C5_DefectsRecoveredLocally ==
    (\A i \in 1..Len(df) : parse_date(df[i].fecha_vigencia) /= None) =>
        /\ pc /= "aborted"
        /\ pc = "processed" =>
              TotalPricePoints(stations) =
                  Cardinality({i \in 1..Len(df) : notna(df[i].producto)})

\* C6: the display fields and coordinates of every station are those of a
\* most recent row of that station id in the input table.
C6_SeededFromMostRecentRow ==
    Processed =>
        \A k \in 1..Len(stations) :
            LET s == stations[k]
            IN \E i \in 1..Len(df) :
                  /\ MostRecentRow(df, i, s.stationId)
                  /\ s.stationName = df[i].empresa
                  /\ s.address = df[i].direccion
                  /\ s.town = df[i].localidad
                  /\ s.province = df[i].provincia
                  /\ s.flag = df[i].empresabandera
                  /\ s.flagId = df[i].idempresabandera
                  /\ s.coordinates.lat = (IF df[i].latitud = NaN THEN None ELSE df[i].latitud)
                  /\ s.coordinates.lng = (IF df[i].longitud = NaN THEN None ELSE df[i].longitud)

\* C6 witness: a station whose first row in the table is older than (or has
\* no date, unlike) a later row with other display fields, which seeds it.
C6_Witness ==
    /\ pc = "processed"
    /\ \E k \in 1..Len(stations) : \E i, j \in 1..Len(df) :
          /\ i < j
          /\ df[i].idempresa = stations[k].stationId
          /\ df[j].idempresa = stations[k].stationId
          /\ ~MostRecentRow(df, i, stations[k].stationId)
          /\ MostRecentRow(df, j, stations[k].stationId)
          /\ df[i].empresa /= df[j].empresa
          /\ stations[k].stationName = df[j].empresa
          /\ stations[k].coordinates.lat = FloatOrNone(df[j].latitud)

OutputIds == [i \in 1..Len(output_data) |-> output_data[i].stationId]

\* the rows of d have pairwise different dates, all parsed, so that the
\* date-descending order of d is unique
DistinctDates(d) ==
    \A i, j \in 1..Len(d) :
        /\ notna(d[i].fecha_vigencia_dt)
        /\ i /= j => d[i].fecha_vigencia_dt /= d[j].fecha_vigencia_dt

\* C7 as stated: the formatted list has the stations in the order in which
\* their ids are first met in the date-descending table (stated for the
\* tables whose date-descending order is unique).
C7_FirstEncounterOrder ==
    (pc = "formatted" /\ DistinctDates(df_sorted)) => OutputIds = FirstSeen(df_sorted)

\* C7 amended: the formatted list has the stations in the order of the dict,
\* which is ascending station id.
C7_AscendingStationId ==
    pc = "formatted" =>
        /\ OutputIds = [i \in 1..Len(stations) |-> stations[i].stationId]
        /\ \A i, j \in 1..Len(output_data) : i < j => OutputIds[i] < OutputIds[j]

\* C7 witness: two stations, the one with the larger id met first in the
\* date-descending table.
C7_Witness ==
    /\ pc = "formatted"
    /\ Len(output_data) = 2
    /\ FirstSeen(df_sorted) = <<2, 1>>

\* an axis as the formatted output shows it
Axis(x) == IF x = None THEN Num(0) ELSE x

\* C8: format_output leaves the dict as it is and gives one object per
\* station, in order, with the station's fields, its product records in
\* order, and a Point geometry [lng, lat] where a null axis is 0.0.
C8_FormatOutput ==
    [][(pc = "resolved" /\ pc' = "formatted") =>
          /\ stations' = stations
          /\ Len(output_data') = Len(stations)
          /\ \A i \in 1..Len(stations) :
                LET e == output_data'[i]
                    s == stations[i]
                IN /\ e.stationId = s.stationId
                   /\ e.stationName = s.stationName
                   /\ e.address = s.address
                   /\ e.town = s.town
                   /\ e.province = s.province
                   /\ e.flag = s.flag
                   /\ e.flagId = s.flagId
                   /\ e.products = s.products
                   /\ DOMAIN e = {"stationId", "stationName", "address", "town",
                                  "province", "flag", "flagId", "geometry", "products"}
                   /\ e.geometry = [type |-> "Point",
                                    coordinates |-> <<Axis(s.coordinates.lng),
                                                      Axis(s.coordinates.lat)>>]]_vars

\* C8 witness: a formatted station with a null latitude and two products.
C8_Witness ==
    /\ pc = "formatted"
    /\ \E i \in 1..Len(stations) :
          /\ stations[i].coordinates = [lat |-> None, lng |-> Num(-64)]
          /\ output_data[i].geometry.coordinates = <<Num(-64), Num(0)>>
          /\ Len(output_data[i].products) = 2

====
